---- MODULE Spec2Model ----
(***************************************************************************)
(* Model of the DuoRead content script (src/content.js, first script,      *)
(* lines 1-470): the page translation pass, the removal of translations    *)
(* and the control-message listener.                                       *)
(*                                                                         *)
(* The JavaScript runtime is single threaded: a handler runs without       *)
(* interruption until it returns or reaches an await.  Every action below  *)
(* is one such uninterrupted run.  The only await of translatePage is the  *)
(* TRANSLATE request of a batch (content.js:186).                          *)
(*                                                                         *)
(* The service worker (src/unnamed/part_001: translateTexts with its       *)
(* cache, fetchTranslationsFromApi and translateBatch) is modelled under   *)
(* its own specification, BgSpec (BgLive adds weak fairness).  escapeHtml   *)
(* and restorePlaceholders are applied to bounded strings under StrSpec,   *)
(* and the selection popup (translateSelection, removePopup) runs beside   *)
(* the page pass under SelSpec.  PassLive is the content script with every  *)
(* pending TRANSLATE request of a pass settling (weak fairness).           *)
(***************************************************************************)
EXTENDS Integers, Sequences, FiniteSets, TLC

\* ---- bounds of the model ----
MaxEls == 22        \* largest number of elements matched by TARGET_SELECTORS
MaxVaried == 1      \* leading elements whose content varies over Profiles
MaxMsgs == 3        \* control messages delivered to the content script
MaxNullPos == 1     \* positions at which a reply may carry a single null

\* ---- program constants ----
batchSize == 20     \* content.js:171

VARIABLES
    content,        \* the page: per element, what collectTargetElements reads
    attr,           \* TRANSLATED_ATTR of each element: "none", "loading", "done"
    siblings,       \* inserted nodes that follow each element, nearest first
    isTranslated,   \* content.js:36
    isTranslating,  \* content.js:37
    passes,         \* translatePage calls suspended at their await
    nmsg,           \* number of control messages delivered so far
    lastResponse    \* the latest sendResponse of the message listener

\* the service worker (src/unnamed/part_001)
VARIABLES
    storage,        \* the cache namespace kept in chrome.storage.local
    calls,          \* the translateTexts calls, suspended or returned
    workload        \* the texts of the TRANSLATE requests that will arrive

bgvars == <<storage, calls, workload>>

\* the placeholder functions of the content script (content.js:112-142)
VARIABLES
    strText,        \* the text handed in
    strMap,         \* the placeholder map: pairs <<id, originalHtml>> in key order
    strArg,         \* the argument restorePlaceholders is called with
    strHtml,        \* what the last function applied returned
    strStage        \* which functions have been applied

strvars == <<strText, strMap, strArg, strHtml, strStage>>

\* the selection popup of the content script (content.js:342-469)
VARIABLES
    popupCard,      \* content.js:343: the card the variable refers to, 0 for null
    cards,          \* the cards in the document, by the selection that made them
    selections      \* the translateSelection calls, suspended or returned

selvars == <<popupCard, cards, selections>>

\* the parts of the state the page pass and the listener never touch
offpage == <<bgvars, strvars, selvars>>

vars == <<content, attr, siblings, isTranslated, isTranslating, passes, nmsg,
          lastResponse, storage, calls, workload, strText, strMap, strArg,
          strHtml, strStage, popupCard, cards, selections>>

Els == DOMAIN content

\* no text has been handed to the placeholder functions
StrIdle ==
    /\ strText = <<>>
    /\ strMap = <<>>
    /\ strArg = <<>>
    /\ strHtml = <<>>
    /\ strStage = "idle"

\* content.js:342-343: no card, no selection translated
SelIdle ==
    /\ popupCard = 0
    /\ cards = <<>>
    /\ selections = <<>>

NoPass == [state |-> "none"]
NoResponse == [id |-> 0, type |-> "none"]

Min(a, b) == IF a < b THEN a ELSE b

EmptyCache == [h \in {} |-> 0]

\* ---- the page ----
\* excluded: the element has an ancestor-or-self matching EXCLUDE_SELECTORS
\* len:      length of the text returned by getTranslatableText
\* jp:       number of characters of that text in the Japanese ranges
Plain == [excluded |-> FALSE, len |-> 12, jp |-> 0]

Profiles ==
    { Plain,
      [excluded |-> TRUE,  len |-> 12, jp |-> 0],
      [excluded |-> FALSE, len |-> 1,  jp |-> 0],
      [excluded |-> FALSE, len |-> 10, jp |-> 4],
      [excluded |-> FALSE, len |-> 10, jp |-> 3] }

\* ---- collectTargetElements ----
isMainlyJapanese(text) ==
    IF text.jp = 0 THEN FALSE ELSE text.jp * 10 > 3 * text.len

\* variant: the TRANSLATED_ATTR test of content.js:51 is missing
isTarget_IgnoresMarker(el) ==
    /\ ~content[el].excluded
    /\ ~(content[el].len = 0 \/ content[el].len < 2)
    /\ ~isMainlyJapanese(content[el])

isTarget(el) ==
    /\ attr[el] = "none"
    /\ ~content[el].excluded
    /\ ~(content[el].len = 0 \/ content[el].len < 2)
    /\ ~isMainlyJapanese(content[el])

RECURSIVE collectFrom(_)
collectFrom(el) ==
    IF el > Len(content) THEN <<>>
    ELSE (IF isTarget(el) THEN <<el>> ELSE <<>>) \o collectFrom(el + 1)

collectTargetElements == collectFrom(1)

\* ---- the inserted siblings of one element ----
showLoadingIndicator(nodes) ==
    IF nodes # <<>> /\ Head(nodes) = "loader" THEN nodes
    ELSE <<"loader">> \o nodes

removeLoadingIndicator(nodes) ==
    IF nodes # <<>> /\ Head(nodes) = "loader" THEN Tail(nodes) ELSE nodes

\* variant: an existing translation is not removed first
insertTranslation_Appends(nodes) == <<"result">> \o nodes

insertTranslation(nodes) ==
    LET kept == IF nodes # <<>> /\ Head(nodes) = "result"
                THEN Tail(nodes) ELSE nodes
    IN  <<"result">> \o kept

IsNotResult(n) == n # "result"
IsNotLoader(n) == n # "loader"

\* ---- removeAllTranslations, as a function of the document and the flag ----
\* variant: the loading indicators are left in the document
removeAllTranslations_KeepsLoaders(st) ==
    [attr |-> [el \in DOMAIN st.attr |-> "none"],
     siblings |-> [el \in DOMAIN st.siblings |->
                      SelectSeq(st.siblings[el], IsNotResult)],
     isTranslated |-> FALSE]

\* variant: returns after removing the translations when there are any, and
\* only otherwise removes the indicators and the markers
removeAllTranslations_Staged(st) ==
    IF \E el \in DOMAIN st.siblings : \E k \in DOMAIN st.siblings[el] :
           st.siblings[el][k] = "result"
    THEN [attr |-> st.attr,
          siblings |-> [el \in DOMAIN st.siblings |->
                           SelectSeq(st.siblings[el], IsNotResult)],
          isTranslated |-> FALSE]
    ELSE [attr |-> [el \in DOMAIN st.attr |-> "none"],
          siblings |-> [el \in DOMAIN st.siblings |->
                           SelectSeq(st.siblings[el], IsNotLoader)],
          isTranslated |-> FALSE]

removeAllTranslations(st) ==
    LET s1 == [el \in DOMAIN st.siblings |->
                  SelectSeq(st.siblings[el], IsNotResult)]
        s2 == [el \in DOMAIN s1 |-> SelectSeq(s1[el], IsNotLoader)]
    IN  [attr |-> [el \in DOMAIN st.attr |-> "none"],
         siblings |-> s2,
         isTranslated |-> FALSE]

Doc == [attr |-> attr, siblings |-> siblings, isTranslated |-> isTranslated]

\* ---- batches of a pass ----
Range(s) == {s[k] : k \in DOMAIN s}

batchOf(targets, i) == SubSeq(targets, i + 1, Min(i + batchSize, Len(targets)))

\* the loop head of content.js:172-182 for the batch starting at offset i
\* variant: every element of the page is marked, not only the batch
markBatch_WholePage(d, batch) ==
    [attr |-> [el \in DOMAIN d.attr |-> "loading"],
     siblings |-> [el \in DOMAIN d.siblings |-> showLoadingIndicator(d.siblings[el])]]

markBatch(d, batch) ==
    [attr |-> [el \in DOMAIN d.attr |->
                  IF el \in Range(batch) THEN "loading" ELSE d.attr[el]],
     siblings |-> [el \in DOMAIN d.siblings |->
                  IF el \in Range(batch) THEN showLoadingIndicator(d.siblings[el])
                  ELSE d.siblings[el]]]

\* variant: the failure branches forget removeLoadingIndicator
failBatch_KeepsLoader(d, batch) ==
    [attr |-> [el \in DOMAIN d.attr |->
                  IF el \in Range(batch) THEN "none" ELSE d.attr[el]],
     siblings |-> d.siblings]

\* variant: the failure branches clear the marker of every element
failBatch_RevertsAll(d, batch) ==
    [attr |-> [el \in DOMAIN d.attr |-> "none"],
     siblings |-> [el \in DOMAIN d.siblings |->
                  IF el \in Range(batch) THEN removeLoadingIndicator(d.siblings[el])
                  ELSE d.siblings[el]]]

\* content.js:193-200 and 215-221: the batch failed
failBatch(d, batch) ==
    [attr |-> [el \in DOMAIN d.attr |->
                  IF el \in Range(batch) THEN "none" ELSE d.attr[el]],
     siblings |-> [el \in DOMAIN d.siblings |->
                  IF el \in Range(batch) THEN removeLoadingIndicator(d.siblings[el])
                  ELSE d.siblings[el]]]

PosIn(batch, el) == CHOOSE k \in DOMAIN batch : batch[k] = el

\* content.js:203-214: nulls is the set of positions of the reply that are falsy
applyBatch(d, batch, nulls) ==
    [attr |-> [el \in DOMAIN d.attr |->
                  IF el \in Range(batch) /\ PosIn(batch, el) \notin nulls
                  THEN "done" ELSE d.attr[el]],
     siblings |-> [el \in DOMAIN d.siblings |->
                  IF el \in Range(batch)
                  THEN IF PosIn(batch, el) \notin nulls
                       THEN insertTranslation(removeLoadingIndicator(d.siblings[el]))
                       ELSE removeLoadingIndicator(d.siblings[el])
                  ELSE d.siblings[el]]]

\* content.js:203-221 when item p of the reply is truthy but no string:
\* restorePlaceholders throws at element p (content.js:114), the elements
\* before it have their translation, and the catch then removes the marker
\* of every element of the batch
applyUpTo(d, batch, p) ==
    failBatch(applyBatch(d, SubSeq(batch, 1, p - 1), {}), batch)

\* ---- replies to a TRANSLATE request ----
\* nulls: the positions that are falsy; bad: the position of an item that is
\* truthy but no string, 0 when there is none
Replies ==
    { [kind |-> "error"], [kind |-> "throw"] }
    \cup { [kind |-> "ok", nulls |-> {}, bad |-> 0],
           [kind |-> "ok", nulls |-> 1..batchSize, bad |-> 0],
           [kind |-> "ok", nulls |-> {}, bad |-> 2] }
    \cup { [kind |-> "ok", nulls |-> {p}, bad |-> 0] : p \in 1..MaxNullPos }

\* what handling the reply makes of the batch
handled(d, batch, reply) ==
    IF reply.kind # "ok" THEN failBatch(d, batch)
    ELSE IF reply.bad \in DOMAIN batch THEN applyUpTo(d, batch, reply.bad)
    ELSE applyBatch(d, batch, reply.nulls)

\* ---- the message listener's sendResponse ----
\* content.js:323 answers START_TRANSLATE with the literal true,
\* content.js:316 answers TOGGLE_TRANSLATE with the flag
responseTo(id, origin, flag) ==
    [id |-> id, type |-> origin,
     isTranslated |-> IF origin = "START_TRANSLATE" THEN TRUE ELSE flag]

\* ---- translatePage up to its first await (content.js:159-191) ----
\* variant: the guard of content.js:160 is missing
alreadyTranslating_Never == FALSE

alreadyTranslating == isTranslating

\* variant: the early return of content.js:167 is missing, so that the
\* empty loop is skipped and content.js:224 runs
noTargets_FallsThrough(id, origin) ==
    /\ isTranslating' = FALSE
    /\ isTranslated' = TRUE
    /\ UNCHANGED <<attr, siblings, passes>>
    /\ lastResponse' = responseTo(id, origin, TRUE)

\* content.js:165-168: nothing was collected
noTargets(id, origin) ==
    /\ isTranslating' = FALSE
    /\ UNCHANGED <<attr, siblings, isTranslated, passes>>
    /\ lastResponse' = responseTo(id, origin, isTranslated)

translatePage(id, origin) ==
    IF alreadyTranslating
    THEN /\ UNCHANGED <<attr, siblings, isTranslated, isTranslating, passes>>
         /\ lastResponse' = responseTo(id, origin, isTranslated)
    ELSE LET targets == collectTargetElements IN
         IF Len(targets) = 0
         THEN noTargets(id, origin)
         ELSE LET d == markBatch([attr |-> attr, siblings |-> siblings],
                                 batchOf(targets, 0)) IN
              /\ isTranslating' = TRUE
              /\ attr' = d.attr
              /\ siblings' = d.siblings
              /\ passes' = [passes EXCEPT ![id] =
                              [state |-> "await", targets |-> targets,
                               i |-> 0, origin |-> origin]]
              /\ UNCHANGED <<isTranslated, lastResponse>>

\* ---- translatePage from the reply of a batch to the next await or the
\* ---- return (content.js:193-228)
\* variant: the finally block of content.js:225-227 is missing
passReturns_KeepsTranslating(id) ==
    /\ isTranslated' = TRUE
    /\ UNCHANGED isTranslating
    /\ passes' = [passes EXCEPT ![id] = NoPass]
    /\ lastResponse' = responseTo(id, passes[id].origin, TRUE)

passReturns(id) ==
    /\ isTranslated' = TRUE
    /\ isTranslating' = FALSE
    /\ passes' = [passes EXCEPT ![id] = NoPass]
    /\ lastResponse' = responseTo(id, passes[id].origin, TRUE)

\* variant: neither the catch of content.js:215 nor the finally of
\* content.js:225 is there, so that a rejected request ends the call where
\* it stands
TranslateResponse_ThrowEscapes(id, reply) ==
    /\ passes[id].state = "await"
    /\ LET p == passes[id]
           batch == batchOf(p.targets, p.i)
           d0 == [attr |-> attr, siblings |-> siblings]
           d1 == handled(d0, batch, reply)
           next == p.i + batchSize
       IN  IF reply.kind = "throw"
           THEN /\ passes' = [passes EXCEPT ![id] = NoPass]
                /\ UNCHANGED <<attr, siblings, isTranslated, isTranslating,
                               lastResponse>>
           ELSE IF next < Len(p.targets)
           THEN LET d2 == markBatch(d1, batchOf(p.targets, next)) IN
                /\ attr' = d2.attr
                /\ siblings' = d2.siblings
                /\ passes' = [passes EXCEPT ![id].i = next]
                /\ UNCHANGED <<isTranslated, isTranslating, lastResponse>>
           ELSE /\ attr' = d1.attr
                /\ siblings' = d1.siblings
                /\ passReturns(id)
    /\ UNCHANGED <<content, nmsg>>
    /\ UNCHANGED offpage

TranslateResponse(id, reply) ==
    /\ passes[id].state = "await"
    /\ LET p == passes[id]
           batch == batchOf(p.targets, p.i)
           d0 == [attr |-> attr, siblings |-> siblings]
           d1 == handled(d0, batch, reply)
           next == p.i + batchSize
       IN  IF next < Len(p.targets)
           THEN LET d2 == markBatch(d1, batchOf(p.targets, next)) IN
                /\ attr' = d2.attr
                /\ siblings' = d2.siblings
                /\ passes' = [passes EXCEPT ![id].i = next]
                /\ UNCHANGED <<isTranslated, isTranslating, lastResponse>>
           ELSE /\ attr' = d1.attr
                /\ siblings' = d1.siblings
                /\ passReturns(id)
    /\ UNCHANGED <<content, nmsg>>
    /\ UNCHANGED offpage

\* ---- control messages (content.js:313-338) ----
StartTranslate ==
    /\ nmsg < MaxMsgs
    /\ nmsg' = nmsg + 1
    /\ translatePage(nmsg + 1, "START_TRANSLATE")
    /\ UNCHANGED content
    /\ UNCHANGED offpage

\* variant: the test of content.js:304 is inverted
ToggleTranslate_Inverted ==
    /\ nmsg < MaxMsgs
    /\ nmsg' = nmsg + 1
    /\ IF ~isTranslated
       THEN LET r == removeAllTranslations(Doc) IN
            /\ attr' = r.attr
            /\ siblings' = r.siblings
            /\ isTranslated' = r.isTranslated
            /\ lastResponse' = responseTo(nmsg + 1, "TOGGLE_TRANSLATE", r.isTranslated)
            /\ UNCHANGED <<isTranslating, passes>>
       ELSE translatePage(nmsg + 1, "TOGGLE_TRANSLATE")
    /\ UNCHANGED content
    /\ UNCHANGED offpage

ToggleTranslate ==
    /\ nmsg < MaxMsgs
    /\ nmsg' = nmsg + 1
    /\ IF isTranslated
       THEN LET r == removeAllTranslations(Doc) IN
            /\ attr' = r.attr
            /\ siblings' = r.siblings
            /\ isTranslated' = r.isTranslated
            /\ lastResponse' = responseTo(nmsg + 1, "TOGGLE_TRANSLATE", r.isTranslated)
            /\ UNCHANGED <<isTranslating, passes>>
       ELSE translatePage(nmsg + 1, "TOGGLE_TRANSLATE")
    /\ UNCHANGED content
    /\ UNCHANGED offpage

StopTranslate ==
    /\ nmsg < MaxMsgs
    /\ nmsg' = nmsg + 1
    /\ LET r == removeAllTranslations(Doc) IN
       /\ attr' = r.attr
       /\ siblings' = r.siblings
       /\ isTranslated' = r.isTranslated
    /\ lastResponse' = [id |-> nmsg + 1, type |-> "STOP_TRANSLATE",
                        isTranslated |-> FALSE]
    /\ UNCHANGED <<content, isTranslating, passes>>
    /\ UNCHANGED offpage

\* variant: answering the status also resets the running flag
GetStatus_ResetsTranslating ==
    /\ nmsg < MaxMsgs
    /\ nmsg' = nmsg + 1
    /\ lastResponse' = [id |-> nmsg + 1, type |-> "GET_STATUS",
                        isTranslated |-> isTranslated,
                        isTranslating |-> isTranslating]
    /\ isTranslating' = FALSE
    /\ UNCHANGED <<content, attr, siblings, isTranslated, passes>>
    /\ UNCHANGED offpage

GetStatus ==
    /\ nmsg < MaxMsgs
    /\ nmsg' = nmsg + 1
    /\ lastResponse' = [id |-> nmsg + 1, type |-> "GET_STATUS",
                        isTranslated |-> isTranslated,
                        isTranslating |-> isTranslating]
    /\ UNCHANGED <<content, attr, siblings, isTranslated, isTranslating, passes>>
    /\ UNCHANGED offpage

\* ---- specification ----
\* page sizes around the batch boundary
PageSizes == {0, 1, 2, batchSize, batchSize + 1, MaxEls}

Pages ==
    { [el \in 1..n |-> IF el \in 1..MaxVaried THEN v[el] ELSE Plain] :
        n \in PageSizes, v \in [1..MaxVaried -> Profiles] }

Init ==
    /\ content \in Pages
    /\ attr = [el \in DOMAIN content |-> "none"]
    /\ siblings = [el \in DOMAIN content |-> <<>>]
    /\ isTranslated = FALSE
    /\ isTranslating = FALSE
    /\ passes = [id \in 1..MaxMsgs |-> NoPass]
    /\ nmsg = 0
    /\ lastResponse = NoResponse
    /\ storage = EmptyCache
    /\ calls = <<>>
    /\ workload = <<>>
    /\ StrIdle
    /\ SelIdle

Next ==
    \/ StartTranslate
    \/ ToggleTranslate
    \/ StopTranslate
    \/ GetStatus
    \/ \E id \in 1..MaxMsgs, reply \in Replies : TranslateResponse(id, reply)

Spec == Init /\ [][Next]_vars

\* every TRANSLATE request of a pass settles: the promise of content.js:186
\* resolves or rejects, and the call resumes
RequestSettles == \E id \in 1..MaxMsgs, reply \in Replies : TranslateResponse(id, reply)

\* the pages all of whose elements are targets: what an element holds
\* decides whether it is collected, not whether the pass returns
PlainPage == \A el \in Els : content[el] = Plain

PassInit == Init /\ PlainPage

PassLive == PassInit /\ [][Next]_vars /\ WF_vars(RequestSettles)

\* ======================================================================
\* The service worker (src/unnamed/part_001)
\* ======================================================================

\* ---- bounds of the service worker model ----
MaxShort == 3       \* short requests are runs of the texts 1..MaxShort
MaxText == 11       \* the longest request is the run of the texts 1..MaxText

\* ---- program constants ----
apiBatchSize == 10      \* part_001:84
maxRetries == 3         \* part_001:123
backoffBase == 500      \* part_001:153
interBatchDelay == 200  \* part_001:98

\* ---- JavaScript values ----
\* a text is a number n >= 1; Str(n) is the translation of text n, Str(0)
\* the empty string and Str(-1) the string "null"
Null == [k |-> "null", s |-> 0]
Undefined == [k |-> "undefined", s |-> 0]
Str(n) == [k |-> "string", s |-> n]
Truthy(v) == v.k = "string" /\ v.s # 0
String(v) == IF v.k = "null" THEN Str(-1) ELSE v

\* SHA-256 of the text in hex: distinct texts get distinct keys
getHash(text) == <<"sha256", text>>

Lookup(cache, h) == IF h \in DOMAIN cache THEN cache[h] ELSE Undefined

\* {...cache, ...newCache} of part_001:66
Spread(cache, newCache) ==
    [h \in DOMAIN cache \cup DOMAIN newCache |->
        IF h \in DOMAIN newCache THEN newCache[h] ELSE cache[h]]

\* chrome.storage.local.set stores the JSON form of the object: a property
\* whose value is undefined is not stored
stored(obj) == [h \in {g \in DOMAIN obj : obj[g].k # "undefined"} |-> obj[h]]

\* ---- translateTexts: the cache check (part_001:26-41) ----
isCached(cache, text) == Truthy(Lookup(cache, getHash(text)))

RECURSIVE uncachedFrom(_, _, _)
uncachedFrom(texts, cache, i) ==
    IF i > Len(texts) THEN <<>>
    ELSE (IF isCached(cache, texts[i]) THEN <<>> ELSE <<i>>)
         \o uncachedFrom(texts, cache, i + 1)

cachedResults(texts, cache) ==
    [i \in 1..Len(texts) |->
        IF isCached(cache, texts[i]) THEN cache[getHash(texts[i])] ELSE Null]

\* ---- translateBatch: the normalisation of the body (part_001:134-149) ----
\* a body is a list of items; an item is a value v (arr FALSE) or the
\* one-element list [v] (arr TRUE)
normalize(texts, data) ==
    IF Len(texts) = 1
    THEN << IF data = <<>> THEN Undefined
            ELSE IF data[1].arr THEN data[1].v ELSE data[1].v >>
    ELSE [j \in 1..Len(data) |->
            IF data[j].arr THEN data[j].v ELSE String(data[j].v)]

\* ---- the bodies the backend may answer for a chunk ----
Body(chunk, arr, first, len) ==
    [j \in 1..len |-> [arr |-> arr, v |-> IF j = 1 THEN first ELSE Str(chunk[j])]]

Bodies(chunk) ==
    { Body(chunk, arr, first, Len(chunk)) :
        arr \in BOOLEAN, first \in {Str(chunk[1]), Null, Str(0)} }
    \cup { Body(chunk, arr, Str(chunk[1]), Len(chunk) - 1) : arr \in BOOLEAN }

\* an attempt fails on a transport error (fetch rejects), on a status that
\* is not 2xx, and on a 2xx answer whose body response.json() cannot parse
Failures == {"transport", "status", "body"}

Outcomes(chunk) ==
    { [kind |-> f] : f \in Failures }
    \cup { [kind |-> "ok", data |-> d] : d \in Bodies(chunk) }

\* ---- translateBatch: the retry loop (part_001:123-158) ----
\* variant: the exponent is one too large
backoffDelay_FromOne(attempt) == (2 ^ (attempt + 1)) * backoffBase

backoffDelay(attempt) == (2 ^ attempt) * backoffBase

\* variant: the test of part_001:152 is attempt < maxRetries
lastAttempt_OffByOne(attempt) == ~(attempt < maxRetries)

lastAttempt(attempt) == ~(attempt < maxRetries - 1)

\* ---- translateTexts: merge and cache update (part_001:52-67) ----
apiAt(api, j) == IF j <= Len(api) THEN api[j] ELSE Undefined

mergedResults(c, api) ==
    [i \in 1..Len(c.results) |->
        IF \E j \in DOMAIN c.uncachedIndices : c.uncachedIndices[j] = i
        THEN apiAt(api, CHOOSE j \in DOMAIN c.uncachedIndices :
                              c.uncachedIndices[j] = i)
        ELSE c.results[i]]

newCacheOf(c, api) ==
    [h \in {getHash(c.uncachedTexts[j]) : j \in DOMAIN c.uncachedTexts} |->
        LET js == {j \in DOMAIN c.uncachedTexts : getHash(c.uncachedTexts[j]) = h}
            last == CHOOSE j \in js : \A j2 \in js : j2 <= j
        IN  apiAt(api, last)]

chunkOf(c) ==
    SubSeq(c.uncachedTexts, c.i + 1, Min(c.i + apiBatchSize, Len(c.uncachedTexts)))

\* a call that has returned: what it was given, read, sent and received,
\* and the answer of handleTranslateRequest (part_001:189-194)
returned(c, api, response) ==
    [state |-> "done", texts |-> c.texts, cache |-> c.cache,
     sent |-> c.uncachedTexts, api |-> api,
     nreq |-> c.nreq, waits |-> c.waits, response |-> response]

\* the answer of the catch of handleTranslateRequest (part_001:192-194)
\* variant: the failure is answered as an empty list of translations
errorResponse_EmptyList(message) == [kind |-> "translated", translated |-> <<>>]

errorResponse(message) == [kind |-> "error", message |-> message]

\* what can throw before the first fetch: the namespace read of part_001:23
\* and the hashing of part_001:33
Faults == {"none", "storage", "hash"}

\* ---- TRANSLATE arrives: handleTranslateRequest and translateTexts up to
\* ---- the first fetch (part_001:186-190, 21-50, 86-88, 124-128).
\* chrome.storage.local serves its operations in the order they were
\* issued, so the namespace read at line 23 is the one stored at the call
TranslateRequest(fault) ==
    /\ Len(calls) < Len(workload)
    /\ LET texts == workload[Len(calls) + 1]
           cache == storage
           idx == uncachedFrom(texts, cache, 1)
           c0 == [texts |-> texts, cache |-> cache,
                  results |-> cachedResults(texts, cache),
                  uncachedIndices |-> idx,
                  uncachedTexts |-> [j \in DOMAIN idx |-> texts[idx[j]]],
                  api |-> <<>>, i |-> 0, attempt |-> 0, nreq |-> 0,
                  waits |-> <<>>, error |-> "none"]
       IN  calls' = Append(calls,
              IF fault # "none"
              THEN returned([c0 EXCEPT !.uncachedTexts = <<>>], <<>>,
                            errorResponse(fault))
              ELSE IF Len(idx) = 0
              THEN returned(c0, <<>>,
                            [kind |-> "translated", translated |-> c0.results])
              ELSE [c0 EXCEPT !.nreq = 1] @@ [state |-> "fetch"])
    /\ UNCHANGED <<storage, workload>>

\* ---- a fetch attempt ends (part_001:126-157, 88-99, 52-76, 189-194) ----
\* variant: the catch of part_001:69-74 returns the cached values instead of
\* throwing (the alternative its comment mentions)
attemptFailed_ReturnsCached(id, failure) ==
    LET c == calls[id] IN
    /\ IF lastAttempt(c.attempt)
       THEN calls' = [calls EXCEPT ![id] =
                        returned(c, c.api, [kind |-> "translated",
                                            translated |-> c.results])]
       ELSE calls' = [calls EXCEPT ![id] =
                        [c EXCEPT !.state = "backoff", !.error = failure,
                                  !.waits = Append(@, [kind |-> "backoff",
                                                       ms |-> backoffDelay(c.attempt)])]]
    /\ UNCHANGED storage

attemptFailed(id, failure) ==
    LET c == calls[id] IN
    /\ IF lastAttempt(c.attempt)
       THEN calls' = [calls EXCEPT ![id] =
                        returned(c, c.api, errorResponse(failure))]
       ELSE calls' = [calls EXCEPT ![id] =
                        [c EXCEPT !.state = "backoff", !.error = failure,
                                  !.waits = Append(@, [kind |-> "backoff",
                                                       ms |-> backoffDelay(c.attempt)])]]
    /\ UNCHANGED storage

\* variant: the next chunk is requested at once, without the delay of
\* part_001:97-99
attemptSucceeded_NoDelay(id, data) ==
    LET c == calls[id]
        api == c.api \o normalize(chunkOf(c), data)
    IN  IF c.i + apiBatchSize < Len(c.uncachedTexts)
        THEN /\ calls' = [calls EXCEPT ![id] =
                            [c EXCEPT !.state = "fetch", !.api = api,
                                      !.attempt = 0, !.nreq = @ + 1,
                                      !.i = @ + apiBatchSize]]
             /\ UNCHANGED storage
        ELSE /\ storage' = stored(Spread(c.cache, newCacheOf(c, api)))
             /\ calls' = [calls EXCEPT ![id] =
                            returned(c, api, [kind |-> "translated",
                                              translated |-> mergedResults(c, api)])]

attemptSucceeded(id, data) ==
    LET c == calls[id]
        api == c.api \o normalize(chunkOf(c), data)
    IN  IF c.i + apiBatchSize < Len(c.uncachedTexts)
        THEN /\ calls' = [calls EXCEPT ![id] =
                            [c EXCEPT !.state = "pause", !.api = api,
                                      !.waits = Append(@, [kind |-> "pause",
                                                           ms |-> interBatchDelay])]]
             /\ UNCHANGED storage
        ELSE /\ storage' = stored(Spread(c.cache, newCacheOf(c, api)))
             /\ calls' = [calls EXCEPT ![id] =
                            returned(c, api, [kind |-> "translated",
                                              translated |-> mergedResults(c, api)])]

FetchReply(id, outcome) ==
    /\ calls[id].state = "fetch"
    /\ IF outcome.kind = "ok"
       THEN attemptSucceeded(id, outcome.data)
       ELSE attemptFailed(id, outcome.kind)
    /\ UNCHANGED workload

\* ---- a delay elapses: the next attempt (part_001:153, 124-128) or the
\* ---- next chunk (part_001:98, 86-88) issues its fetch
DelayElapsed(id) ==
    /\ calls[id].state \in {"backoff", "pause"}
    /\ calls' = [calls EXCEPT ![id] =
          IF calls[id].state = "backoff"
          THEN [@ EXCEPT !.state = "fetch", !.attempt = @ + 1, !.nreq = @ + 1]
          ELSE [@ EXCEPT !.state = "fetch", !.attempt = 0, !.nreq = @ + 1,
                         !.i = @ + apiBatchSize]]
    /\ UNCHANGED <<storage, workload>>

\* ---- specification of the service worker ----
Run(lo, n) == [j \in 1..n |-> lo + j - 1]

ShortInputs ==
    { Run(q[1], q[2]) :
        q \in { r \in (1..MaxShort) \X (1..MaxShort) : r[1] + r[2] - 1 <= MaxShort } }

LongInputs == { Run(1, apiBatchSize), Run(1, MaxText) }

Workloads ==
    { <<a>> : a \in ShortInputs \cup LongInputs }
    \cup { <<a, b>> : a \in ShortInputs, b \in ShortInputs }

ContentIdle ==
    /\ content = <<>>
    /\ attr = <<>>
    /\ siblings = <<>>
    /\ isTranslated = FALSE
    /\ isTranslating = FALSE
    /\ passes = [id \in 1..MaxMsgs |-> NoPass]
    /\ nmsg = 0
    /\ lastResponse = NoResponse

contentvars == <<content, attr, siblings, isTranslated, isTranslating, passes,
                 nmsg, lastResponse, strvars, selvars>>

BgInit ==
    /\ ContentIdle
    /\ StrIdle
    /\ SelIdle
    /\ storage = EmptyCache
    /\ calls = <<>>
    /\ workload \in Workloads

BgRequest == \E fault \in Faults : TranslateRequest(fault) /\ UNCHANGED contentvars

BgReply ==
    \E id \in DOMAIN calls :
        /\ calls[id].state = "fetch"
        /\ \E outcome \in Outcomes(chunkOf(calls[id])) : FetchReply(id, outcome)
        /\ UNCHANGED contentvars

BgDelay == \E id \in DOMAIN calls : DelayElapsed(id) /\ UNCHANGED contentvars

BgNext == BgRequest \/ BgReply \/ BgDelay

BgSpec == BgInit /\ [][BgNext]_vars

\* every fetch settles and every timer fires, and a request that was sent
\* is delivered
BgLive == BgSpec /\ WF_vars(BgNext)

\* ---- the placeholder functions (content.js:73-142) ----
\* A string is a sequence of characters.  The wrapper that
\* restorePlaceholders writes around a restored node is constant text with
\* no character a token pattern can match across, and is kept as two symbols.
MaxAffix == 1       \* longest run of free characters before the token

Whitespace == {" "}
FullWidthUnderscore == "_fw"      \* U+FF3F
WrapperOpen == "<span class=placeholder>"
WrapperClose == "</span>"

\* String.prototype.replace(/c/g, r) for one character c
RECURSIVE replaceChar(_, _, _)
replaceChar(text, c, r) ==
    IF text = <<>> THEN <<>>
    ELSE (IF Head(text) = c THEN r ELSE <<Head(text)>>)
         \o replaceChar(Tail(text), c, r)

\* variant: the apostrophe is left as it is
escapeHtml_KeepsApostrophe(text) ==
    LET t1 == replaceChar(text, "&", <<"&", "a", "m", "p", ";">>)
        t2 == replaceChar(t1, "<", <<"&", "l", "t", ";">>)
        t3 == replaceChar(t2, ">", <<"&", "g", "t", ";">>)
    IN  replaceChar(t3, "\"", <<"&", "q", "u", "o", "t", ";">>)

escapeHtml(text) ==
    LET t1 == replaceChar(text, "&", <<"&", "a", "m", "p", ";">>)
        t2 == replaceChar(t1, "<", <<"&", "l", "t", ";">>)
        t3 == replaceChar(t2, ">", <<"&", "g", "t", ";">>)
        t4 == replaceChar(t3, "\"", <<"&", "q", "u", "o", "t", ";">>)
    IN  replaceChar(t4, "'", <<"&", "#", "0", "3", "9", ";">>)

\* content.js:120-121.  Every "_" of the id becomes "[_U+FF3F]", and the
\* characters of that text, brackets included, are joined with "\s*": the
\* class reads [\s*_\s*U+FF3F\s*] and holds whitespace, "*" and the two
\* underscores; the elements of the pattern are separated by \s*, and the
\* flag i makes the letters match in either case.
UnderscoreClass == {"_", FullWidthUnderscore, "*"} \cup Whitespace

lower(c) ==
    CASE c = "M" -> "m" [] c = "A" -> "a" [] c = "T" -> "t" [] c = "H" -> "h"
      [] OTHER -> c

elemMatches(idc, c) ==
    IF idc = "_" THEN c \in UnderscoreClass ELSE lower(c) = lower(idc)

RECURSIVE wsRun(_, _)
wsRun(s, pos) ==
    IF pos <= Len(s) /\ s[pos] \in Whitespace THEN 1 + wsRun(s, pos + 1) ELSE 0

\* where the match of the elements k.. of the pattern that starts at pos
\* ends (the position after it), 0 when there is none; the \s* before an
\* element is greedy: it takes the whole run of whitespace, then gives
\* characters back one by one until the rest matches
\* the first alternative that matches
orElse(e, alt) == IF e # 0 THEN e ELSE alt

RECURSIVE matchFrom(_, _, _, _)
RECURSIVE tryFrom(_, _, _, _, _)
tryFrom(s, id, pos, k, n) ==
    IF n < 0 THEN 0
    ELSE orElse(IF pos + n <= Len(s) /\ elemMatches(id[k], s[pos + n])
                THEN matchFrom(s, id, pos + n + 1, k + 1)
                ELSE 0,
                tryFrom(s, id, pos, k, n - 1))

matchFrom(s, id, pos, k) ==
    IF k > Len(id) THEN pos
    ELSE tryFrom(s, id, pos, k, IF k = 1 THEN 0 ELSE wsRun(s, pos))

\* the replacement text of String.prototype.replace: $$ is a dollar, $& the
\* match, $` what precedes it, $' what follows it; the pattern has no group,
\* so any other $ stands for itself
RECURSIVE expand(_, _, _, _)
expand(r, s, a, e) ==
    IF r = <<>> THEN <<>>
    ELSE IF Head(r) = "$" /\ Len(r) >= 2 /\ r[2] \in {"$", "&", "`", "'"}
    THEN (CASE r[2] = "$" -> <<"$">>
            [] r[2] = "&" -> SubSeq(s, a, e - 1)
            [] r[2] = "`" -> SubSeq(s, 1, a - 1)
            [] r[2] = "'" -> SubSeq(s, e, Len(s)))
         \o expand(SubSeq(r, 3, Len(r)), s, a, e)
    ELSE <<Head(r)>> \o expand(Tail(r), s, a, e)

\* html.replace(pattern, replacement) with the flag g, from position pos
RECURSIVE replaceAll(_, _, _, _)
replaceAll(s, id, r, pos) ==
    IF pos > Len(s) THEN <<>>
    ELSE LET e == matchFrom(s, id, pos, 1) IN
         IF e # 0
         THEN expand(r, s, pos, e) \o replaceAll(s, id, r, e)
         ELSE <<s[pos]>> \o replaceAll(s, id, r, pos + 1)

\* the loop of content.js:117-127 from entry k of the map
RECURSIVE restoreFrom(_, _, _)
restoreFrom(html, map, k) ==
    IF k > Len(map) THEN html
    ELSE restoreFrom(
           replaceAll(html, map[k][1],
                      <<WrapperOpen>> \o map[k][2] \o <<WrapperClose>>, 1),
           map, k + 1)

\* variant: the translated text is not escaped first
restorePlaceholders_NoEscape(translatedText, placeholderMap) ==
    IF translatedText = <<>> THEN <<>>
    ELSE restoreFrom(translatedText, placeholderMap, 1)

restorePlaceholders(translatedText, placeholderMap) ==
    IF translatedText = <<>> THEN <<>>
    ELSE restoreFrom(escapeHtml(translatedText), placeholderMap, 1)

\* ---- specification of the placeholder functions ----
\* content.js:91: the token of the first math node of a fragment
MathToken == <<"_", "_", "M", "A", "T", "H", "_", "0", "_", "_">>

fullWidth(token) ==
    [k \in DOMAIN token |-> IF token[k] = "_" THEN FullWidthUnderscore ELSE token[k]]

\* a whitespace character put after character g of the token
spaced(token, g) == SubSeq(token, 1, g) \o <<" ">> \o SubSeq(token, g + 1, Len(token))

\* what a translation may make of a token
TokenVariants(token) ==
    LET forms == {token, fullWidth(token)} IN
    forms \cup { spaced(f, g) : f \in forms, g \in 1..(Len(token) - 1) }

AffixChars == {"a", "&", "<", ">", "\"", "'", " ", "_", "$"}

RECURSIVE Affixes(_)
Affixes(n) ==
    IF n = 0 THEN {<<>>}
    ELSE Affixes(n - 1)
         \cup { Append(a, c) : a \in Affixes(n - 1), c \in AffixChars }

Suffixes == { <<>>, <<"'">>, <<"a", "&", "b">> }

Texts ==
    { pre \o body \o post :
        pre \in Affixes(MaxAffix),
        body \in TokenVariants(MathToken) \cup {<<>>},
        post \in Suffixes }

\* outerHTML of a math node
Markups ==
    { <<"<", "m", ">">>, <<"<", "m", ">", "x", "&", "y">>,
      <<"<", "m", ">", "$", "$">>, <<"<", "m", ">", "$", "&">>,
      <<"<", "m", ">", "$", "`">>, <<"<", "m", ">", "$", "'">>,
      <<"<", "m", ">", "$", "1">> }

Maps == { <<>> } \cup { << <<MathToken, m>> >> : m \in Markups }

BgIdle ==
    /\ storage = EmptyCache
    /\ calls = <<>>
    /\ workload = <<>>

StrInit ==
    /\ ContentIdle
    /\ BgIdle
    /\ SelIdle
    /\ strText \in Texts
    /\ strMap \in Maps
    /\ strArg = strText
    /\ strHtml = <<>>
    /\ strStage = "given"

notstr == <<content, attr, siblings, isTranslated, isTranslating, passes,
            nmsg, lastResponse, bgvars, selvars>>

EscapeHtml ==
    /\ strStage = "given"
    /\ strArg' = escapeHtml(strText)
    /\ strHtml' = strArg'
    /\ strStage' = "escaped"
    /\ UNCHANGED <<strText, strMap, notstr>>

RestorePlaceholders ==
    /\ strStage \in {"given", "escaped"}
    /\ strHtml' = restorePlaceholders(strArg, strMap)
    /\ strStage' = IF strStage = "given" THEN "restored" ELSE "restoredEscaped"
    /\ UNCHANGED <<strText, strMap, strArg, notstr>>

StrNext == EscapeHtml \/ RestorePlaceholders

StrSpec == StrInit /\ [][StrNext]_vars

\* ---- the selection popup (content.js:342-469) ----
MaxSel == 2         \* selections translated from the popup button

\* what the TRANSLATE request of a selection can come back with: a
\* translation, an answer without one ({error}, null or empty item), or a
\* rejection of sendMessage
SelReplies == {"translated", "nothing", "rejected"}

\* content.js:416-446: translateSelection up to its await.  The card
\* replaces whatever popupCard referred to; a card that was open stays in
\* the document.
\* variant: opening the card also resets the running flag of the page pass
translateSelection_ResetsTranslating ==
    /\ Len(selections) < MaxSel
    /\ LET sid == Len(selections) + 1 IN
       /\ popupCard' = sid
       /\ cards' = cards @@ (sid :> [text |-> "loading", of |-> sid])
       /\ selections' = Append(selections, "await")
    /\ isTranslating' = FALSE
    /\ UNCHANGED <<content, attr, siblings, isTranslated, passes,
                   nmsg, lastResponse, bgvars, strvars>>

translateSelection ==
    /\ Len(selections) < MaxSel
    /\ LET sid == Len(selections) + 1 IN
       /\ popupCard' = sid
       /\ cards' = cards @@ (sid :> [text |-> "loading", of |-> sid])
       /\ selections' = Append(selections, "await")
    /\ UNCHANGED <<content, attr, siblings, isTranslated, isTranslating, passes,
                   nmsg, lastResponse, bgvars, strvars>>

\* content.js:409-414, called by the mousedown listener (content.js:346-350)
\* and by the close button of a card
removePopup ==
    /\ popupCard # 0
    /\ cards' = [c \in DOMAIN cards \ {popupCard} |-> cards[c]]
    /\ popupCard' = 0
    /\ UNCHANGED <<content, attr, siblings, isTranslated, isTranslating, passes,
                   nmsg, lastResponse, bgvars, strvars, selections>>

\* content.js:448-468: translateSelection from its await to its end.  The
\* result element is looked up in popupCard as it is now; when popupCard is
\* null the lookup throws in the try and again in the catch, and the call
\* ends with an exception nobody handles.
selectionResponse(sid, reply) ==
    /\ sid \in DOMAIN selections
    /\ selections[sid] = "await"
    /\ IF popupCard = 0
       THEN /\ selections' = [selections EXCEPT ![sid] = "threw"]
            /\ UNCHANGED <<popupCard, cards>>
       ELSE /\ selections' = [selections EXCEPT ![sid] = "done"]
            /\ cards' = [cards EXCEPT ![popupCard] =
                            [text |-> IF reply = "translated" THEN "translated"
                                      ELSE "error",
                             of |-> sid]]
            /\ UNCHANGED popupCard
    /\ UNCHANGED <<content, attr, siblings, isTranslated, isTranslating, passes,
                   nmsg, lastResponse, bgvars, strvars>>

\* ---- specification of the content script with the selection popup ----
\* the pages of a single batch that is not full
SelPages == { p \in Pages : Len(p) < batchSize }

SelInit ==
    /\ content \in SelPages
    /\ attr = [el \in DOMAIN content |-> "none"]
    /\ siblings = [el \in DOMAIN content |-> <<>>]
    /\ isTranslated = FALSE
    /\ isTranslating = FALSE
    /\ passes = [id \in 1..MaxMsgs |-> NoPass]
    /\ nmsg = 0
    /\ lastResponse = NoResponse
    /\ BgIdle
    /\ StrIdle
    /\ SelIdle

SelNext ==
    \/ StartTranslate
    \/ StopTranslate
    \/ \E id \in 1..MaxMsgs, reply \in Replies : TranslateResponse(id, reply)
    \/ translateSelection
    \/ removePopup
    \/ \E sid \in 1..MaxSel, reply \in SelReplies : selectionResponse(sid, reply)

SelSpec == SelInit /\ [][SelNext]_vars

\* ---- vocabulary of the properties ----
HasResult(el) == \E k \in DOMAIN siblings[el] : siblings[el][k] = "result"
HasLoader(el) == \E k \in DOMAIN siblings[el] : siblings[el][k] = "loader"
PassInFlight == \E id \in 1..MaxMsgs : passes[id].state = "await"
InFlightBatch(id) == Range(batchOf(passes[id].targets, passes[id].i))
NoArtifacts ==
    /\ \A el \in Els : ~HasResult(el) /\ ~HasLoader(el) /\ attr[el] = "none"
    /\ ~isTranslated

\* C1: a START_TRANSLATE, or a TOGGLE_TRANSLATE in the not-translated state,
\* that arrives while isTranslating is true changes no marker, no inserted
\* node, neither flag, and suspends no new pass (sends no TRANSLATE request).
C1_GuardedStartIsNoOp ==
    [][ (isTranslating /\ (StartTranslate \/ (ToggleTranslate /\ ~isTranslated)))
        => UNCHANGED <<attr, siblings, isTranslated, isTranslating, passes>> ]_vars

\* a start was answered at once while an earlier pass is still suspended
C1_Witness ==
    /\ isTranslating
    /\ lastResponse.type \in {"START_TRANSLATE", "TOGGLE_TRANSLATE"}
    /\ lastResponse.id = nmsg
    /\ \E id \in 1..MaxMsgs : id < lastResponse.id /\ passes[id].state = "await"

\* C2: isTranslated is true exactly when some element has an inserted
\* translation sibling.
C2_TranslatedIffMarkup ==
    isTranslated <=> \E el \in Els : HasResult(el)

\* C3: isTranslating is true only while a translatePage call is suspended at
\* its await, i.e. has not yet returned.
C3_TranslatingOnlyDuringPass ==
    isTranslating => PassInFlight

\* a pass over a non-empty selection has returned and released the flag
C3_Witness ==
    /\ ~isTranslating
    /\ ~PassInFlight
    /\ isTranslated
    /\ lastResponse.type \in {"START_TRANSLATE", "TOGGLE_TRANSLATE"}
    /\ \A el \in Els : ~HasResult(el)

\* C4: a pass started from Idle that collects nothing suspends no pass (sends
\* no TRANSLATE request), leaves isTranslated false and ends with
\* isTranslating false.
C4_EmptySelectionReturnsToIdle ==
    [][ ( /\ ~isTranslated /\ ~isTranslating
          /\ collectTargetElements = <<>>
          /\ (StartTranslate \/ ToggleTranslate) )
        => (passes' = passes /\ ~isTranslated' /\ ~isTranslating') ]_vars

\* a start from Idle over a page without targets has been answered
C4_Witness ==
    /\ nmsg = 1
    /\ lastResponse.id = 1
    /\ lastResponse.type \in {"START_TRANSLATE", "TOGGLE_TRANSLATE"}
    /\ collectTargetElements = <<>>
    /\ ~isTranslated /\ ~isTranslating

\* C5: the isTranslated value of every response to START_TRANSLATE equals the
\* isTranslated flag at the moment the response is sent.
C5_StartResponseCarriesFlag ==
    [][ (lastResponse' # lastResponse /\ lastResponse'.type = "START_TRANSLATE")
        => lastResponse'.isTranslated = isTranslated' ]_vars

\* C6: right after removeAllTranslations run by STOP_TRANSLATE, in any state,
\* there is no translation sibling, no loading indicator and no marker, and
\* isTranslated is false.
C6_StopLeavesNoArtifacts ==
    [][ StopTranslate => NoArtifacts' ]_vars

\* a stop has been handled while a batch request of a pass is outstanding
C6_Witness ==
    /\ lastResponse.type = "STOP_TRANSLATE"
    /\ lastResponse.id = nmsg
    /\ PassInFlight
    /\ NoArtifacts

\* C7: a GET_STATUS handled after a STOP_TRANSLATE reports isTranslated false
\* and isTranslating false, whatever the state the stop arrived in.
C7_StatusAfterStopIsIdle ==
    [][ (lastResponse.type = "STOP_TRANSLATE" /\ GetStatus)
        => (~lastResponse'.isTranslated /\ ~lastResponse'.isTranslating) ]_vars

\* C8: the reply to a batch request whose elements had their marker cleared
\* while it was outstanding is not applied to them: they get no translation
\* sibling and no marker, and the session does not become Translated.
C8_LateReplyNotApplied ==
    [][ \A id \in 1..MaxMsgs :
          ( /\ passes[id].state = "await"
            /\ passes'[id] # passes[id]
            /\ \A el \in InFlightBatch(id) : attr[el] = "none" )
          => ( /\ \A el \in InFlightBatch(id) :
                    attr'[el] = "none" /\ siblings'[el] = siblings[el]
               /\ (~isTranslated => ~isTranslated') ) ]_vars

\* C9: removeAllTranslations applied twice gives the same document and flags
\* as applied once, from every reachable state.
C9_RevertIdempotent ==
    removeAllTranslations(removeAllTranslations(Doc)) = removeAllTranslations(Doc)

\* a state the revert changes: translations of an applied batch, indicators
\* of the batch in flight, and markers
C9_Witness ==
    /\ \E el \in Els : HasResult(el) /\ attr[el] = "done"
    /\ \E el \in Els : HasLoader(el) /\ attr[el] = "loading"
    /\ removeAllTranslations(Doc) # Doc

\* C10: an element that carries the marker is not returned by
\* collectTargetElements, and every element for which a batch request is
\* issued carried no marker just before.
RequestIssuedFor(el) ==
    \E id \in 1..MaxMsgs :
        /\ passes'[id].state = "await"
        /\ passes'[id] # passes[id]
        /\ el \in Range(batchOf(passes'[id].targets, passes'[id].i))

C10_MarkedNeverCollected ==
    /\ [](LET collected == Range(collectTargetElements) IN
          \A el \in Els : attr[el] # "none" => el \notin collected)
    /\ [][ \A el \in Els : RequestIssuedFor(el) => attr[el] = "none" ]_vars

\* a second pass is in flight whose selection left out an element marked done
C10_Witness ==
    \E id \in 1..MaxMsgs :
        /\ passes[id].state = "await"
        /\ lastResponse.id # 0 /\ lastResponse.id < id
        /\ \E el \in Els :
              /\ attr[el] = "done"
              /\ content[el] = Plain
              /\ el \notin Range(passes[id].targets)

\* C11: once the reply to a batch has been handled, every element of that
\* batch is either done (marker "done" and a translation sibling) or
\* untouched (no marker); none keeps the marker "loading".
C11_NoLoadingAfterBatch ==
    [][ \A id \in 1..MaxMsgs :
          (passes[id].state = "await" /\ passes'[id] # passes[id])
          => \A el \in InFlightBatch(id) :
                \/ attr'[el] = "none"
                \/ attr'[el] = "done" /\ "result" \in Range(siblings'[el]) ]_vars

\* C12: handling the reply to a batch, whatever the reply, leaves no loading
\* indicator on the elements of that batch, and no loading indicator is in
\* the document when no pass is in flight.
C12_LoadersRemoved ==
    /\ [](~PassInFlight => \A el \in Els : ~HasLoader(el))
    /\ [][ \A id \in 1..MaxMsgs :
             (passes[id].state = "await" /\ passes'[id] # passes[id])
             => \A el \in InFlightBatch(id) :
                   "loader" \notin Range(siblings'[el]) ]_vars

\* a two-batch pass has returned: one batch was applied, the other failed
C12_Witness ==
    /\ ~PassInFlight
    /\ isTranslated
    /\ Len(content) > batchSize
    /\ \E el \in Els : HasResult(el) /\ attr[el] = "done"
    /\ \E el \in Els : content[el] = Plain /\ attr[el] = "none"
    /\ \A el \in Els : ~HasLoader(el)

\* C13: when a batch fails (error reply or exception), the elements of that
\* batch lose marker and indicator, every element outside that batch and the
\* next one is left as it was, and the pass goes on with the next batch if
\* there is one.
BatchFails(id) ==
    \/ TranslateResponse(id, [kind |-> "error"])
    \/ TranslateResponse(id, [kind |-> "throw"])
    \/ /\ passes[id].state = "await"
       /\ Cardinality(InFlightBatch(id)) >= 2
       /\ TranslateResponse(id, [kind |-> "ok", nulls |-> {}, bad |-> 2])

C13_BatchIsolation ==
    [][ \A id \in 1..MaxMsgs : BatchFails(id) =>
          LET p == passes[id]
              failed == InFlightBatch(id)
              next == p.i + batchSize
              following == IF next < Len(p.targets)
                           THEN Range(batchOf(p.targets, next)) ELSE {}
          IN  /\ \A el \in failed :
                    attr'[el] = "none" /\ "loader" \notin Range(siblings'[el])
              /\ \A el \in Els \ (failed \cup following) :
                    attr'[el] = attr[el] /\ siblings'[el] = siblings[el]
              /\ following # {} =>
                    /\ passes'[id].state = "await"
                    /\ passes'[id].i = next
                    /\ \A el \in following : attr'[el] = "loading" ]_vars

\* the first batch of the only pass failed and the second one is in flight
C13_Witness ==
    /\ nmsg = 1
    /\ passes[1].state = "await"
    /\ passes[1].i = batchSize
    /\ \A el \in Range(batchOf(passes[1].targets, 0)) :
          attr[el] = "none" /\ siblings[el] = <<>>
    /\ \A el \in InFlightBatch(1) : attr[el] = "loading" /\ HasLoader(el)

\* ---- vocabulary of the service worker properties ----
Done(id) == calls[id].state = "done"
Translated(id) == Done(id) /\ calls[id].response.kind = "translated"
Failed(id) == Done(id) /\ calls[id].response.kind = "error"
\* v is not the translation of a text other than t
IsAnswerFor(v, t) == (v.k = "string" /\ v.s > 0) => v.s = t
\* the delays waited since the last inter-batch delay
lastChunkWaits(w) ==
    LET ps == {k \in DOMAIN w : w[k].kind = "pause"}
        start == IF ps = {} THEN 0 ELSE CHOOSE k \in ps : \A k2 \in ps : k2 <= k
    IN  [k \in 1..(Len(w) - start) |-> w[start + k].ms]

\* C14: when a text has been translated by a call that needed one backend
\* request, a following call for the same text makes no backend request and
\* returns the same translation, whatever the backend answered (the
\* namespace read and the hashing of the second call succeed).
C14_SecondCallFromCache ==
    [][ ( /\ Len(calls) = 1 /\ Len(calls') = 2
          /\ Translated(1) /\ calls[1].nreq = 1
          /\ Len(workload[1]) = 1 /\ workload[2] = workload[1]
          /\ TranslateRequest("none") )
        => ( /\ calls'[2].state = "done"
             /\ calls'[2].nreq = 0
             /\ calls'[2].response = calls[1].response ) ]_vars

\* C15: in a call that returned translations, every text whose hash was in
\* the namespace is answered from it and not sent, the texts sent are the
\* other texts in their order, and the output at each position is the
\* translation of the text at that position.
C15_CacheMergeByPosition ==
    \A id \in DOMAIN calls : Translated(id) =>
        LET c == calls[id]
            out == c.response.translated
            inCache(i) == getHash(c.texts[i]) \in DOMAIN c.cache
            missIdx == {i \in DOMAIN c.texts : ~inCache(i)}
        IN  /\ Len(out) = Len(c.texts)
            /\ \A i \in DOMAIN c.texts : inCache(i) =>
                  /\ out[i] = c.cache[getHash(c.texts[i])]
                  /\ c.texts[i] \notin Range(c.sent)
            /\ Len(c.sent) = Cardinality(missIdx)
            /\ \A j, j2 \in DOMAIN c.sent :
                  j < j2 => \E i, i2 \in missIdx :
                               i < i2 /\ c.texts[i] = c.sent[j]
                                      /\ c.texts[i2] = c.sent[j2]
            /\ \A i \in DOMAIN c.texts : IsAnswerFor(out[i], c.texts[i])

\* C16: a translation written to the namespace is never removed and never
\* changes.
C16_CacheAppendOnly ==
    [][ \A h \in DOMAIN storage :
          Truthy(storage[h]) =>
              h \in DOMAIN storage' /\ storage'[h] = storage[h] ]_vars

\* C17: when the last attempt of a fetch fails, the call answers with that
\* failure as its error and with no translations, and the namespace is left
\* as it was.
C17_FailClosed ==
    [][ \A id \in DOMAIN calls :
          (calls[id].state = "fetch" /\ lastAttempt(calls[id].attempt)
             /\ \E f \in Failures : FetchReply(id, [kind |-> f]))
          => ( /\ calls'[id].state = "done"
               /\ DOMAIN calls'[id].response = {"kind", "message"}
               /\ calls'[id].response.kind = "error"
               /\ FetchReply(id, [kind |-> calls'[id].response.message])
               /\ storage' = storage ) ]_vars

\* a call that had resolved a text from the cache failed on the other one
C17_Witness ==
    \E id \in DOMAIN calls :
        /\ Failed(id)
        /\ \E i \in DOMAIN calls[id].texts : isCached(calls[id].cache, calls[id].texts[i])
        /\ calls[id].sent # <<>>
        /\ storage = calls[id].cache

\* C18: the client returns one result per text it was given, and the result
\* at each position is the backend's answer for the text at that position,
\* after every chunk and at the end.
C18_ClientPositional ==
    \A id \in DOMAIN calls :
        LET c == calls[id] IN
        /\ c.state = "pause" =>
              /\ Len(c.api) = c.i + apiBatchSize
              /\ \A j \in DOMAIN c.api : IsAnswerFor(c.api[j], c.uncachedTexts[j])
        /\ (Translated(id) /\ c.sent # <<>>) =>
              /\ Len(c.api) = Len(c.sent)
              /\ \A j \in DOMAIN c.api : IsAnswerFor(c.api[j], c.sent[j])

\* C19 as stated: a chunk is fetched again only after an attempt that ended
\* in a transport error or a status that is not 2xx.
C19_RetryOnlyOnTransportOrStatus ==
    [][ \A id \in DOMAIN calls :
          (calls[id].state = "fetch" /\ calls'[id].state = "backoff")
          => calls'[id].error \in {"transport", "status"} ]_vars

\* C19 amended: for each chunk there are at most maxRetries fetches; a chunk
\* is fetched again only after an attempt that failed (transport error,
\* status that is not 2xx, or body that cannot be parsed); a successful
\* attempt ends the chunk; the call fails only when the third attempt fails.
C19_RetryBudget ==
    [][ \A id \in DOMAIN calls :
          LET c == calls[id]
              c2 == calls'[id]
          IN  /\ (c.state # "done" /\ c2.state # "done" /\ c2.nreq # c.nreq) =>
                    /\ c2.nreq = c.nreq + 1
                    /\ \/ /\ c.state = "backoff" /\ c.error \in Failures
                          /\ c2.i = c.i /\ c2.attempt = c.attempt + 1
                          /\ c2.attempt < maxRetries
                       \/ /\ c.state = "pause"
                          /\ c2.i = c.i + apiBatchSize /\ c2.attempt = 0
              /\ (c.state = "fetch" /\ c2.state = "backoff") =>
                    c2.error \in Failures /\ c2.attempt = c.attempt
              /\ (c.state = "fetch"
                    /\ \E o \in Outcomes(chunkOf(c)) :
                          o.kind = "ok" /\ FetchReply(id, o)) =>
                    \/ c2.state = "pause"
                    \/ c2.state = "done" /\ c2.response.kind = "translated"
              /\ (c.state = "fetch" /\ c2.state = "done"
                    /\ c2.response.kind = "error") =>
                    c.attempt = maxRetries - 1 ]_vars

\* the second chunk of a call failed three times after the first succeeded
C19_Witness ==
    \E id \in DOMAIN calls :
        /\ Failed(id)
        /\ Len(calls[id].sent) > apiBatchSize
        /\ calls[id].nreq = 1 + maxRetries

\* C20 as stated: the backoff waits of a chunk whose attempts all failed are
\* 500, 1000 and 2000 ms.
C20_ThreeBackoffWaits ==
    \A id \in DOMAIN calls :
        (Failed(id) /\ calls[id].nreq > 0) => lastChunkWaits(calls[id].waits) = <<500, 1000, 2000>>

\* C20 amended: the backoff waits of a chunk whose attempts all failed are
\* 500 and 1000 ms; nothing is waited after the third failure.
C20_TwoBackoffWaits ==
    \A id \in DOMAIN calls :
        (Failed(id) /\ calls[id].nreq > 0) => lastChunkWaits(calls[id].waits) = <<500, 1000>>

\* a call over one chunk has failed after its three attempts
C20_Witness ==
    \E id \in DOMAIN calls :
        /\ Failed(id)
        /\ Len(calls[id].sent) <= apiBatchSize
        /\ Len(calls[id].waits) = 2
        /\ calls[id].nreq = maxRetries

\* the inter-batch delay a call is waiting, or has just waited
pauseOf == [kind |-> "pause", ms |-> interBatchDelay]

\* C21: a chunk that succeeds with chunks left starts the 200 ms delay and
\* issues no request; the request of the next chunk is issued only when that
\* delay has elapsed; a call whose last chunk succeeds returns without
\* waiting.
C21_InterBatchDelay ==
    [][ \A id \in DOMAIN calls :
          calls[id].state # "done" =>
          LET c == calls[id]
              c2 == calls'[id]
              more == c.i + apiBatchSize < Len(c.uncachedTexts)
          IN  /\ (c.state = "fetch" /\ c2.state = "pause") =>
                    /\ more
                    /\ c2.waits = Append(c.waits, pauseOf)
                    /\ c2.nreq = c.nreq /\ c2.i = c.i
              /\ (c.state = "fetch" /\ c2.state = "done") =>
                    /\ c2.waits = c.waits
                    /\ c2.response.kind = "translated" => ~more
              /\ (c2.state # "done" /\ c2.i # c.i) =>
                    /\ c.state = "pause" /\ c2.state = "fetch"
                    /\ c.waits # <<>> /\ c.waits[Len(c.waits)] = pauseOf
                    /\ c2.i = c.i + apiBatchSize
                    /\ c2.nreq = c.nreq + 1
                    /\ Len(c.api) > 0 ]_vars

\* a call over two chunks returned translations after one inter-batch delay
C21_Witness ==
    \E id \in DOMAIN calls :
        /\ Translated(id)
        /\ Len(calls[id].sent) > apiBatchSize
        /\ Cardinality({k \in DOMAIN calls[id].waits :
                            calls[id].waits[k] = pauseOf}) = 1
        /\ calls[id].nreq >= 2

\* the two answers the TRANSLATE handler can give
IsTranslatedAnswer(r) ==
    DOMAIN r = {"kind", "translated"} /\ r.kind = "translated"
IsErrorAnswer(r, message) ==
    DOMAIN r = {"kind", "message"} /\ r.kind = "error" /\ r.message = message

\* C22: a call that has returned answered with a list of translations or
\* with an error message, never both; a failure of the namespace read, of
\* the hashing or of the last fetch attempt is answered with that failure as
\* the error; and every call that was received is answered.
C22_AlwaysAnswers ==
    /\ [](\A id \in DOMAIN calls : Done(id) =>
             \/ IsTranslatedAnswer(calls[id].response)
             \/ \E f \in Failures \cup Faults :
                    IsErrorAnswer(calls[id].response, f))
    /\ [][ /\ \A f \in Faults \ {"none"} :
               TranslateRequest(f) =>
                   /\ Len(calls') = Len(calls) + 1
                   /\ calls'[Len(calls')].state = "done"
                   /\ IsErrorAnswer(calls'[Len(calls')].response, f)
           /\ \A id \in DOMAIN calls : \A f \in Failures :
               ( calls[id].state = "fetch" /\ lastAttempt(calls[id].attempt)
                   /\ FetchReply(id, [kind |-> f]) ) =>
                   IsErrorAnswer(calls'[id].response, f) ]_vars
    /\ \A id \in 1..2 : (Len(calls) >= id) ~> (Len(calls) >= id /\ Done(id))

\* both kinds of failure were answered: one call failed on the namespace
\* read, the other on its third fetch attempt
C22_Witness ==
    /\ Len(calls) = 2
    /\ Failed(1) /\ IsErrorAnswer(calls[1].response, "storage")
    /\ Failed(2) /\ calls[2].nreq = maxRetries
    /\ calls[2].response.message \in Failures

\* C23: a TOGGLE_TRANSLATE that finds isTranslated true reverts the page (no
\* marker, no inserted node, isTranslated false) and answers false; one that
\* finds it false calls translatePage, which suspends a pass on the first
\* batch of the eligible elements unless a pass is running or nothing is
\* eligible; and every answer to TOGGLE_TRANSLATE carries the value
\* isTranslated has when the answer is sent.
C23_ToggleDispatch ==
    [][ /\ (ToggleTranslate /\ isTranslated) =>
              /\ NoArtifacts'
              /\ passes' = passes /\ isTranslating' = isTranslating
              /\ lastResponse' = [id |-> nmsg', type |-> "TOGGLE_TRANSLATE",
                                  isTranslated |-> FALSE]
        /\ (ToggleTranslate /\ ~isTranslated) =>
              /\ ~isTranslated'
              /\ (~isTranslating /\ collectTargetElements # <<>>) =>
                    /\ isTranslating'
                    /\ passes'[nmsg'] =
                          [state |-> "await", targets |-> collectTargetElements,
                           i |-> 0, origin |-> "TOGGLE_TRANSLATE"]
                    /\ \A el \in Range(batchOf(collectTargetElements, 0)) :
                          attr'[el] = "loading"
                    /\ lastResponse' = lastResponse
              /\ (isTranslating \/ collectTargetElements = <<>>) =>
                    /\ attr' = attr /\ siblings' = siblings /\ passes' = passes
                    /\ lastResponse'.id = nmsg'
        /\ (lastResponse' # lastResponse
              /\ lastResponse'.type = "TOGGLE_TRANSLATE") =>
              lastResponse'.isTranslated = isTranslated' ]_vars

\* a toggle started a pass whose answer was true, and the next toggle
\* reverted the page and answered false
C23_Witness ==
    /\ lastResponse.type = "TOGGLE_TRANSLATE"
    /\ lastResponse.id >= 2
    /\ ~lastResponse.isTranslated
    /\ NoArtifacts
    /\ \E el \in Els : isTarget(el)
    /\ ~PassInFlight

\* C24: the step that answers a GET_STATUS answers with the two flags as
\* they are, and changes neither flag, no marker, no inserted node and no
\* suspended pass.
C24_GetStatusPureRead ==
    [][ (lastResponse' # lastResponse /\ lastResponse'.type = "GET_STATUS") =>
          /\ lastResponse'.isTranslated = isTranslated
          /\ lastResponse'.isTranslating = isTranslating
          /\ isTranslated' = isTranslated
          /\ isTranslating' = isTranslating
          /\ attr' = attr
          /\ siblings' = siblings
          /\ passes' = passes
          /\ content' = content ]_vars

\* the status was read while a pass was suspended on a request, on a page
\* that an earlier pass had translated
C24_Witness ==
    /\ lastResponse.type = "GET_STATUS"
    /\ lastResponse.isTranslated /\ lastResponse.isTranslating
    /\ PassInFlight
    /\ \E el \in Els : HasLoader(el)

\* ---- vocabulary of the placeholder properties ----
Entities ==
    { <<"&", "a", "m", "p", ";">>, <<"&", "l", "t", ";">>, <<"&", "g", "t", ";">>,
      <<"&", "q", "u", "o", "t", ";">>, <<"&", "#", "0", "3", "9", ";">> }
startsEntity(s, i) ==
    \E e \in Entities : i + Len(e) - 1 <= Len(s) /\ SubSeq(s, i, i + Len(e) - 1) = e
\* the positions of s that hold markup: <, >, " or ', or an & that does not
\* begin an entity
RawCount(s) ==
    Cardinality({ i \in DOMAIN s :
                    \/ s[i] \in {"<", ">", "\"", "'"}
                    \/ s[i] = "&" /\ ~startsEntity(s, i) })
Contains(s, sub) ==
    \E i \in 1..(Len(s) - Len(sub) + 1) : SubSeq(s, i, i + Len(sub) - 1) = sub
HasSpecial(text) == \E i \in DOMAIN text : text[i] \in {"&", "<", ">", "\"", "'"}
Restored == strStage = "restored"

\* C25: in the output of restorePlaceholders, outside the placeholder
\* wrapper every &, <, >, " and ' is in escaped form, there is at most one
\* wrapper per token of the text, and inside the wrapper there is no more
\* markup than the original markup of the map holds.
C25_EscapedBeforeSubstitution ==
    Restored =>
        LET h == strHtml
            opens == {i \in DOMAIN h : h[i] = WrapperOpen}
            closes == {i \in DOMAIN h : h[i] = WrapperClose}
        IN  IF opens = {}
            THEN closes = {} /\ RawCount(h) = 0
            ELSE /\ Cardinality(opens) = 1 /\ Cardinality(closes) = 1
                 /\ strMap # <<>>
                 /\ LET a == CHOOSE i \in opens : TRUE
                        b == CHOOSE i \in closes : TRUE
                    IN  /\ a < b
                        /\ RawCount(SubSeq(h, 1, a - 1)) = 0
                        /\ RawCount(SubSeq(h, b + 1, Len(h))) = 0
                        /\ RawCount(SubSeq(h, a + 1, b - 1)) <= RawCount(strMap[1][2])

\* a text with markup characters on both sides of its token was restored
\* around the original markup
C25_Witness ==
    /\ Restored
    /\ \E i \in DOMAIN strHtml : strHtml[i] = WrapperOpen
    /\ HasSpecial(<<strText[1]>>) /\ HasSpecial(<<strText[Len(strText)]>>)
    /\ Contains(strHtml, strMap[1][2])

\* C26 as stated: restore applied to escape(text) with an empty map returns
\* escape(text).
C26_RestoreOfEscapedIsIdentity ==
    (strStage = "restoredEscaped" /\ strMap = <<>>) => strHtml = strArg

\* C26 amended: with an empty map restorePlaceholders applied to a text
\* returns escape(text); applied to escape(text) it returns escape(text)
\* exactly when escaping escape(text) changes nothing, and the text escaped
\* twice otherwise.
C26_RestoreEscapesOnce ==
    /\ (Restored /\ strMap = <<>>) => strHtml = escapeHtml(strText)
    /\ (strStage = "restoredEscaped" /\ strMap = <<>>) =>
          /\ strHtml = escapeHtml(escapeHtml(strText))
          /\ (strHtml = strArg) <=> ~HasSpecial(strText)

\* restore was applied to the escaped form of a text that holds a markup
\* character
C26_Witness ==
    /\ strStage = "restoredEscaped" /\ strMap = <<>>
    /\ HasSpecial(strText)
    /\ strHtml # strArg

\* C27: when the text holds the token of the one math node, as written, with
\* full-width underscores or with a whitespace character between two of its
\* characters, the output holds the original markup of the node verbatim.
C27_PlaceholderRoundTrip ==
    ( /\ Restored /\ Len(strMap) = 1
      /\ \E v \in TokenVariants(strMap[1][1]) : Contains(strText, v) )
    => Contains(strHtml, strMap[1][2])

\* the inserted translations that follow an element
ResultsOf(el) == SelectSeq(siblings[el], LAMBDA n : n = "result")

LaterTargets(id) ==
    { passes[id].targets[k] :
        k \in (passes[id].i + batchSize + 1)..Len(passes[id].targets) }

\* C30: at most one pass is suspended on a request; while it is, no element
\* of a later batch is marked or has a loading indicator, and loading
\* indicators are on elements of the batch in flight only; the pass moves to
\* the next batch in the step that handles the reply to the batch in flight,
\* which leaves no indicator on that batch and marks the next one.
C30_BatchesSequential ==
    /\ [](Cardinality({id \in 1..MaxMsgs : passes[id].state = "await"}) <= 1)
    /\ [](\A id \in 1..MaxMsgs : passes[id].state = "await" =>
            /\ \A el \in LaterTargets(id) : attr[el] # "loading" /\ ~HasLoader(el)
            /\ \A el \in Els : HasLoader(el) => el \in InFlightBatch(id))
    /\ [][ \A id \in 1..MaxMsgs :
             (passes[id].state = "await" /\ passes'[id].state = "await"
                /\ passes'[id] # passes[id])
             => /\ passes'[id].i = passes[id].i + batchSize
                /\ passes'[id].targets = passes[id].targets
                /\ \E reply \in Replies : TranslateResponse(id, reply)
                /\ \A el \in InFlightBatch(id) : ~HasLoader(el)'
                /\ \A el \in InFlightBatch(id)' :
                      attr'[el] = "loading" /\ HasLoader(el)' ]_vars

\* the first batch of a pass was applied and its second batch is in flight
C30_Witness ==
    /\ passes[1].state = "await"
    /\ passes[1].i = batchSize
    /\ \A el \in Range(batchOf(passes[1].targets, 0)) :
          attr[el] = "done" /\ siblings[el] = <<"result">>
    /\ \A el \in InFlightBatch(1) : attr[el] = "loading" /\ HasLoader(el)

\* the session state and the marking of the page
SessionState == <<isTranslated, isTranslating, attr, siblings, passes>>
SelectionStep ==
    \/ translateSelection
    \/ \E sid \in 1..MaxSel, reply \in SelReplies : selectionResponse(sid, reply)

\* C28: no step of translateSelection, from the opening of the card to the
\* handling of the answer or of the failure, changes isTranslated,
\* isTranslating, a marker, an inserted node or the pass in flight.
C28_SelectionOutsideSession ==
    [][ ( \/ selections' # selections
          \/ \E sid \in 1..MaxSel, reply \in SelReplies :
                selectionResponse(sid, reply) )
        => SessionState' = SessionState ]_vars

\* a selection was opened and answered while a page pass was suspended on
\* its request, and another one failed
C28_Witness ==
    /\ PassInFlight /\ isTranslating
    /\ \E el \in Els : attr[el] = "loading" /\ HasLoader(el)
    /\ Len(selections) = 2
    /\ selections[1] = "done" /\ selections[2] = "done"
    /\ \E c \in DOMAIN cards : cards[c].text = "translated"
    /\ \E c \in DOMAIN cards : cards[c].text = "error"

\* ---- termination of the page pass ----
\* the batch a suspended pass waits for is its last one
LastBatch(id) == passes[id].i + batchSize >= Len(passes[id].targets)

\* C31: every page pass that was started returns with isTranslating false:
\* a call that collects nothing returns at once with the flag false; a call
\* suspended at its last batch returns on whatever the request comes back
\* with (translations, {error}, a rejection, an item that makes the handling
\* throw) and leaves the flag false, so that the guard of the next call
\* passes; and, every request settling, every suspended pass gets there.
C31_PassTerminates ==
    /\ [][ ( /\ StartTranslate \/ (ToggleTranslate /\ ~isTranslated)
             /\ ~isTranslating
             /\ Len(collectTargetElements) = 0 )
           => (~isTranslating' /\ ~PassInFlight') ]_vars
    /\ [][ \A id \in 1..MaxMsgs : \A reply \in Replies :
             ( TranslateResponse(id, reply) /\ LastBatch(id) )
             => ( /\ passes'[id] = NoPass
                  /\ ~isTranslating'
                  /\ ~alreadyTranslating' ) ]_vars
    /\ [][ \A id \in 1..MaxMsgs :
             ( passes[id].state = "await" /\ passes'[id].state = "none" )
             => ~isTranslating' ]_vars
    /\ PassInFlight ~> (~PassInFlight /\ ~isTranslating)

\* on a page of two batches a first pass lost its first batch and returned,
\* and a second pass, started afterwards, lost its only batch and returned
\* too: the flag is released
C31_Witness ==
    /\ Len(content) = batchSize + 1
    /\ ~isTranslating
    /\ ~PassInFlight
    /\ isTranslated
    /\ lastResponse.id = 2
    /\ lastResponse.type = "START_TRANSLATE"
    /\ HasResult(batchSize + 1)
    /\ attr[2] = "none" /\ ~HasResult(2)

\* ---- a response that finds another popup ----
\* C32: the response of a selection whose card was closed or replaced in
\* the meantime does no harm: no translateSelection call ends with an
\* exception nobody handles, and the text of every card on the page was
\* written for the selection the card was opened for.
C32_StaleResponseHarmless ==
    /\ \A sid \in DOMAIN selections : selections[sid] # "threw"
    /\ \A c \in DOMAIN cards : cards[c].of = c

====
